---- MODULE Spec2Model ----
(***************************************************************************)
(* A model of the cashflow engine of cashflowsim (package cashflow):       *)
(* GetNextDate, GetFirstDate, GenerateCashflows, BalanceFromCashflows,     *)
(* sortCashflowsByDate and RunSimulation.                                  *)
(*                                                                         *)
(* A time.Time is modelled as a calendar day: the number of days since     *)
(* 0001-01-01, so that the zero time.Time (IsZero) is day 0.  All dates of *)
(* the repository's tests are UTC midnights, which is what a day stands    *)
(* for.  A float64 amount is modelled as an integer.                       *)
(***************************************************************************)
EXTENDS Integers, Sequences, FiniteSets, TLC

VARIABLES
  call,         \* the exported function that was invoked
  req,          \* its arguments, as a SimulationRequest
  pc,           \* position of the invocation
  i,            \* index of the event the loop of GenerateCashflows is at
  currentDate,  \* currentDate of GetFirstDate / GenerateCashflows
  first,        \* what the last call of GetFirstDate returned
  cfMap,        \* cfMap of GenerateCashflows: date -> items
  recorded,     \* log of the appends to cfMap: which event, which date
  cashflows,    \* the slice GenerateCashflows returned (or the one given)
  genErr,       \* GenerateCashflows returned an error
  result,       \* the ledger returned
  runErr,       \* RunSimulation returned an error
  arg,          \* the arguments of a direct call of GetNextDate
  ret,          \* what that call returned
  sharedDeltas, \* the package variable frequencyDeltas, as it stands
  sharedItems,  \* the package variable emptyCashflowItems, as it stands
  self,         \* the invocation that is running: the variables above are its own
  parked        \* the other invocations, each with its own variables put aside

vars == <<call, req, pc, i, currentDate, first, cfMap, recorded, cashflows,
          genErr, result, runErr, arg, ret, sharedDeltas, sharedItems, self, parked>>

\* the package variables every invocation reads
shared == <<sharedDeltas, sharedItems>>

\* who runs and who waits
sched == <<self, parked>>

-----------------------------------------------------------------------------
(* Bounds of the model *)

\* longest event list of a request
MaxEvents == 2

\* longest entry list handed to BalanceFromCashflows directly
MaxEntries == 2

\* invocations running at the same time
Invocations == 2

-----------------------------------------------------------------------------
(* time.Time as a day count *)

\* time.Date(y, m, d, 0, 0, 0, 0, time.UTC); d may exceed the month's length,
\* and then rolls over into the following month(s), as time.Date normalises
Date(y, m, d) ==
  LET yy  == IF m <= 2 THEN y - 1 ELSE y
      era == yy \div 400
      yoe == yy - era * 400
      mp  == IF m > 2 THEN m - 3 ELSE m + 9
      doy == (153 * mp + 2) \div 5 + d - 1
      doe == yoe * 365 + yoe \div 4 - yoe \div 100 + doy
  IN  era * 146097 + doe - 306

\* t.Date(): year, month and day of a day count
Civil(t) ==
  LET z   == t + 306
      era == z \div 146097
      doe == z - era * 146097
      yoe == (doe - doe \div 1460 + doe \div 36524 - doe \div 146096) \div 365
      doy == doe - (365 * yoe + yoe \div 4 - yoe \div 100)
      mp  == (5 * doy + 2) \div 153
      d   == doy - (153 * mp + 2) \div 5 + 1
      m   == IF mp < 10 THEN mp + 3 ELSE mp - 9
  IN  [year |-> yoe + era * 400 + (IF m <= 2 THEN 1 ELSE 0), month |-> m, day |-> d]

\* the date is handed back as it came
AddDate_Stuck(t, years, months, days) == t

\* t.AddDate(years, months, days): add to the fields, then normalise
AddDate(t, years, months, days) ==
  LET c  == Civil(t)
      m0 == c.month - 1 + months
  IN  Date(c.year + years + m0 \div 12, (m0 % 12) + 1, c.day + days)

\* t.IsZero()
IsZero(t) == t = 0

-----------------------------------------------------------------------------
(* Recurrence *)

Daily      == "daily"
Weekly     == "weekly"
Monthly    == "monthly"
Quarterly  == "quarterly"
SemiAnnual == "semi-annual"
Annual     == "annual"

\* the arguments of the AddDate call of each frequency
frequencyDeltas ==
  [f \in {Daily, Weekly, Monthly, Quarterly, SemiAnnual, Annual} |->
     CASE f = Daily      -> <<0, 0, 1>>
       [] f = Weekly     -> <<0, 0, 7>>
       [] f = Monthly    -> <<0, 1, 0>>
       [] f = Quarterly  -> <<0, 3, 0>>
       [] f = SemiAnnual -> <<0, 6, 0>>
       [] f = Annual     -> <<1, 0, 0>>]

\* every non-empty tag passes
IsValidFrequency_NonEmpty(freq) == freq # ""

\* _, ok := frequencyDeltas[freq]
IsValidFrequency(freq) == freq \in DOMAIN sharedDeltas

\* the lookup and the call of the delta, for a given content of the table
NextDateIn(table, date, freq) ==
  IF freq \notin DOMAIN table
    THEN [date |-> 0, err |-> TRUE]
    ELSE LET delta == table[freq]
         IN  [date |-> AddDate(date, delta[1], delta[2], delta[3]), err |-> FALSE]

\* (time.Time, error)
GetNextDate(date, freq) == NextDateIn(sharedDeltas, date, freq)

\* the shared empty slice, as the package initialises it
emptyCashflowItems == <<>>

-----------------------------------------------------------------------------
(* Inputs *)

StartDates == {Date(2025, 1, 24), Date(2025, 1, 31), Date(2025, 2, 7)}

\* day 0 is the zero time.Time: end_date not set
EndDates == {0, Date(2025, 1, 24), Date(2025, 1, 31)}

Frequencies == {"", Daily, Weekly, "invalid"}

\* the events a request is made of
EventUniverse ==
  [Name : {"Salary"}, StartDate : StartDates, EndDate : EndDates,
   Frequency : Frequencies, Value : {100}]
  \cup
  [Name : {"Rent"}, StartDate : {Date(2025, 1, 31)}, EndDate : {0},
   Frequency : {"", Weekly}, Value : {0, -30}]
  \cup
  [Name : {"Bonus"}, StartDate : {Date(2025, 1, 24), Date(2025, 1, 31)}, EndDate : {0},
   Frequency : {Monthly}, Value : {100}]

\* <<begin, end>>; the last one has begin after end
Windows ==
  { <<Date(2025, 1, 24), Date(2025, 1, 31)>>,
    <<Date(2025, 1, 31), Date(2025, 2, 7)>>,
    <<Date(2025, 2, 7),  Date(2025, 2, 7)>>,
    <<Date(2025, 2, 7),  Date(2025, 1, 31)>> }

SeqsUpTo(S, n) == UNION { [1..k -> S] : k \in 0..n }

\* the entries a direct caller of BalanceFromCashflows passes
EntryUniverse ==
  { [Date |-> d, Cashflow |-> v, Balance |-> 0,
     Items |-> << [Name |-> "Rent", Value |-> v] >>] :
      d \in {Date(2025, 1, 24), Date(2025, 1, 31)}, v \in {100, -30} }

\* the dates and tags a direct caller of GetNextDate passes
NextDateArgs ==
  [date : {Date(2024, 2, 29), Date(2024, 12, 31), Date(2025, 1, 1), Date(2025, 1, 31)},
   freq : {Daily, Weekly, Monthly, Quarterly, SemiAnnual, Annual, "", "invalid", "Daily"}]

-----------------------------------------------------------------------------
(* The state after the call *)

cfBegin == req.SimStart
cfEnd   == req.SimEnd
events  == req.Events

NoDate == [date |-> 0, ok |-> FALSE]

\* the zero values of what a call does not use
NoRequest == [Events |-> <<>>, InitialBalance |-> 0, SimStart |-> 0, SimEnd |-> 0]
NoArg == [date |-> 0, freq |-> ""]
NoReturn == [date |-> 0, err |-> FALSE]

InitRunSimulation ==
  /\ call = "RunSimulation"
  /\ \E evs \in SeqsUpTo(EventUniverse, MaxEvents), w \in Windows :
       req = [Events |-> evs, InitialBalance |-> 1000,
              SimStart |-> w[1], SimEnd |-> w[2]]
  /\ cashflows = <<>>
  /\ arg = NoArg

InitBalanceFromCashflows ==
  /\ call = "BalanceFromCashflows"
  /\ \E b \in {0, 1000}, s \in {Date(2025, 1, 24), Date(2025, 2, 7)} :
       req = [Events |-> <<>>, InitialBalance |-> b, SimStart |-> s, SimEnd |-> s]
  /\ cashflows \in SeqsUpTo(EntryUniverse, MaxEntries)
  /\ arg = NoArg

InitGetNextDate ==
  /\ call = "GetNextDate"
  /\ req = NoRequest
  /\ cashflows = <<>>
  /\ arg \in NextDateArgs

Init ==
  /\ InitRunSimulation \/ InitBalanceFromCashflows \/ InitGetNextDate
  /\ pc = "call"
  /\ i = 0
  /\ currentDate = 0
  /\ first = NoDate
  /\ cfMap = <<>>
  /\ recorded = <<>>
  /\ genErr = FALSE
  /\ result = <<>>
  /\ runErr = FALSE
  /\ ret = NoReturn
  /\ sharedDeltas = frequencyDeltas
  /\ sharedItems = emptyCashflowItems
  /\ self = 1
  /\ parked = <<>>

-----------------------------------------------------------------------------
(* GenerateCashflows *)

\* the window is never refused
InvalidWindow_Never(begin, end) == FALSE

\* cfBegin.After(cfEnd)
InvalidWindow(begin, end) == begin > end

GenerateCashflowsBegin ==
  /\ pc = "call"
  /\ call = "RunSimulation"
  /\ IF InvalidWindow(cfBegin, cfEnd)
       THEN /\ genErr' = TRUE
            /\ pc' = "generated"
            /\ UNCHANGED <<i, cfMap>>
       ELSE /\ cfMap' = <<>>
            /\ i' = 1
            /\ pc' = "event"
            /\ UNCHANGED genErr
  /\ UNCHANGED <<call, req, currentDate, first, recorded, cashflows, result, runErr, arg, ret, shared, sched>>

\* events of value 0 are expanded like the others
SkipEvent_Never(event) == FALSE

\* event.Value == 0: the event is skipped
SkipEvent(event) == event.Value = 0

\* GetFirstDate up to its loop: kind "loop" when the loop decides
FirstDateDirect(event, begin, end) ==
  LET startDate == event.StartDate
  IN  IF end < startDate
        THEN [kind |-> "return", date |-> 0, ok |-> FALSE]
      ELSE IF ~IsZero(event.EndDate) /\ event.EndDate < begin
        THEN [kind |-> "return", date |-> 0, ok |-> FALSE]
      ELSE IF event.Frequency = "" \/ (~IsZero(event.EndDate) /\ startDate = event.EndDate)
        THEN [kind |-> "return", date |-> startDate, ok |-> TRUE]
      ELSE IF event.Frequency = Daily
        THEN [kind |-> "return", date |-> begin, ok |-> TRUE]
      ELSE [kind |-> "loop", date |-> startDate, ok |-> FALSE]

\* the head of the loop over the events, and the call of GetFirstDate
EventLoop ==
  /\ pc = "event"
  /\ IF i > Len(events)
       THEN /\ pc' = "collect"
            /\ UNCHANGED <<i, currentDate, first>>
     ELSE IF SkipEvent(events[i])
       THEN /\ i' = i + 1
            /\ UNCHANGED <<pc, currentDate, first>>
     ELSE LET r == FirstDateDirect(events[i], cfBegin, cfEnd)
          IN  IF r.kind = "loop"
                THEN /\ currentDate' = r.date
                     /\ pc' = "first"
                     /\ UNCHANGED <<i, first>>
              ELSE IF r.ok
                THEN /\ first' = [date |-> r.date, ok |-> TRUE]
                     /\ currentDate' = r.date
                     /\ pc' = "expand"
                     /\ UNCHANGED i
              ELSE /\ first' = NoDate
                   /\ i' = i + 1
                   /\ UNCHANGED <<pc, currentDate>>
  /\ UNCHANGED <<call, req, cfMap, recorded, cashflows, genErr, result, runErr, arg, ret, shared, sched>>

\* an occurrence on cf_begin itself is passed over
BeforeWindow_OrOnBegin(date, begin) == date <= begin

\* currentDate.Before(cfBegin), the condition of the loop of GetFirstDate
BeforeWindow(date, begin) == date < begin

\* one turn of the loop of GetFirstDate, or its exit
GetFirstDateLoop ==
  /\ pc = "first"
  /\ IF BeforeWindow(currentDate, cfBegin)
       THEN LET next == GetNextDate(currentDate, events[i].Frequency)
            IN  IF next.err
                  THEN /\ first' = NoDate
                       /\ i' = i + 1
                       /\ pc' = "event"
                       /\ UNCHANGED currentDate
                  ELSE /\ currentDate' = next.date
                       /\ UNCHANGED <<pc, i, first>>
       ELSE /\ first' = [date |-> currentDate, ok |-> TRUE]
            /\ pc' = "expand"
            /\ UNCHANGED <<i, currentDate>>
  /\ UNCHANGED <<call, req, cfMap, recorded, cashflows, genErr, result, runErr, arg, ret, shared, sched>>

\* end_date taken as an exclusive cutoff
EventEnded_Exclusive(event, date) == ~IsZero(event.EndDate) /\ event.EndDate <= date

\* !event.EndDate.IsZero() && event.EndDate.Before(currentDate)
EventEnded(event, date) == ~IsZero(event.EndDate) /\ event.EndDate < date

\* cfMap[currentDate] = append(cfMap[currentDate], item)
AppendItem(m, date, item) ==
  [d \in DOMAIN m \cup {date} |->
     IF d \in DOMAIN m
       THEN IF d = date THEN Append(m[d], item) ELSE m[d]
       ELSE <<item>>]

\* one turn of the loop that expands events[i]
ExpandLoop ==
  /\ pc = "expand"
  /\ LET event == events[i]
     IN  IF currentDate > cfEnd \/ EventEnded(event, currentDate)
           THEN /\ i' = i + 1
                /\ pc' = "event"
                /\ UNCHANGED <<cfMap, recorded, currentDate>>
           ELSE /\ cfMap' = AppendItem(cfMap, currentDate,
                                       [Name |-> event.Name, Value |-> event.Value])
                /\ recorded' = Append(recorded, [event |-> i, date |-> currentDate])
                /\ LET next == GetNextDate(currentDate, event.Frequency)
                   IN  IF event.Frequency = "" \/ next.err
                         THEN /\ i' = i + 1
                              /\ pc' = "event"
                              /\ UNCHANGED currentDate
                         ELSE /\ currentDate' = next.date
                              /\ UNCHANGED <<i, pc>>
  /\ UNCHANGED <<call, req, first, cashflows, genErr, result, runErr, arg, ret, shared, sched>>

\* total of the items of one date, added up front to back
RECURSIVE Total(_, _)
Total(items, total) ==
  IF items = <<>> THEN total
  ELSE Total(Tail(items), total + Head(items).Value)

\* the Cashflow appended for one key of cfMap
MakeCashflow(date, items) ==
  [Date |-> date, Cashflow |-> Total(items, 0), Balance |-> 0, Items |-> items]

\* the comparison turned around
Less_Descending(a, b) == b.Date < a.Date

\* cashflows[a].Date.Before(cashflows[b].Date), the less function of the sort
Less(a, b) == a.Date < b.Date

\* what sort.Slice may leave behind: every arrangement of the elements in
\* which no element is Less than the one before it (the sort is not stable).
\* idx is the set of the indices of s still to be placed.
RECURSIVE SortFrom(_, _)
SortFrom(s, idx) ==
  IF idx = {} THEN { <<>> }
  ELSE UNION { { <<s[k]>> \o t : t \in SortFrom(s, idx \ {k}) } :
                 k \in { j \in idx : \A l \in idx : ~Less(s[l], s[j]) } }

\* the slice is left in the order the map was ranged over
sortCashflowsByDate_Unsorted(s) == { s }

sortCashflowsByDate(s) == SortFrom(s, DOMAIN s)

\* the slice built by ranging over cfMap, keys taken in the order keyOrder
RECURSIVE RangeMap(_, _)
RangeMap(m, keyOrder) ==
  IF keyOrder = <<>> THEN <<>>
  ELSE <<MakeCashflow(Head(keyOrder), m[Head(keyOrder)])>> \o RangeMap(m, Tail(keyOrder))

RECURSIVE Ascending(_)
Ascending(S) ==
  IF S = {} THEN <<>>
  ELSE LET m == CHOOSE x \in S : \A y \in S : x <= y
       IN  <<m>> \o Ascending(S \ {m})

Reverse(s) == [k \in 1..Len(s) |-> s[Len(s) + 1 - k]]

\* Go ranges over a map in an unspecified order: the model takes the keys
\* ascending or descending; the sort that follows sees the same elements
MapOrders(m) == { Ascending(DOMAIN m), Reverse(Ascending(DOMAIN m)) }

\* the map becomes a sorted slice, and GenerateCashflows returns it
GenerateCashflowsEnd ==
  /\ pc = "collect"
  /\ \E keyOrder \in MapOrders(cfMap) :
       \E sorted \in sortCashflowsByDate(RangeMap(cfMap, keyOrder)) :
         cashflows' = sorted
  /\ pc' = "generated"
  /\ UNCHANGED <<call, req, i, currentDate, first, cfMap, recorded, genErr, result, runErr, arg, ret, shared, sched>>

-----------------------------------------------------------------------------
(* BalanceFromCashflows and RunSimulation *)

\* the first entry without the initial balance
InitialEntry_ZeroBalance(initialBalance, simStart) ==
  [Date |-> simStart, Cashflow |-> 0, Balance |-> 0, Items |-> <<>>]

\* the entry put in front of the ledger
InitialEntry(initialBalance, simStart) ==
  [Date |-> simStart, Cashflow |-> 0, Balance |-> initialBalance,
   Items |-> sharedItems]

\* the balance is not carried from entry to entry
AddBalance_NoCarry(runningBalance, cf) == cf.Cashflow

\* runningBalance += cf.Cashflow
AddBalance(runningBalance, cf) == runningBalance + cf.Cashflow

RECURSIVE BalanceLoop(_, _, _)
BalanceLoop(runningBalance, cfs, res) ==
  IF cfs = <<>> THEN res
  ELSE LET cf == Head(cfs)
           rb == AddBalance(runningBalance, cf)
       IN  BalanceLoop(rb, Tail(cfs), Append(res, [cf EXCEPT !.Balance = rb]))

BalanceFromCashflows(initialBalance, simStart, cfs) ==
  BalanceLoop(initialBalance, cfs, <<InitialEntry(initialBalance, simStart)>>)

\* BalanceFromCashflows called by itself
BalanceFromCashflowsCall ==
  /\ pc = "call"
  /\ call = "BalanceFromCashflows"
  /\ result' = BalanceFromCashflows(req.InitialBalance, req.SimStart, cashflows)
  /\ pc' = "done"
  /\ UNCHANGED <<call, req, i, currentDate, first, cfMap, recorded, cashflows, genErr, runErr, arg, ret, shared, sched>>

\* as RunSimulationEnd, but the items of the entries are appended to the
\* shared slice instead of it being left empty
RunSimulationEnd_WritesShared ==
  /\ pc = "generated"
  /\ IF genErr
       THEN /\ runErr' = TRUE
            /\ result' = <<>>
            /\ UNCHANGED sharedItems
       ELSE /\ result' = BalanceFromCashflows(req.InitialBalance, req.SimStart, cashflows)
            /\ sharedItems' = IF cashflows = <<>> THEN sharedItems
                                ELSE sharedItems \o cashflows[1].Items
            /\ UNCHANGED runErr
  /\ pc' = "done"
  /\ UNCHANGED <<call, req, i, currentDate, first, cfMap, recorded, cashflows, genErr,
                 arg, ret, sharedDeltas, sched>>

\* RunSimulation after GenerateCashflows returned
RunSimulationEnd ==
  /\ pc = "generated"
  /\ IF genErr
       THEN /\ runErr' = TRUE
            /\ result' = <<>>
       ELSE /\ result' = BalanceFromCashflows(req.InitialBalance, req.SimStart, cashflows)
            /\ UNCHANGED runErr
  /\ pc' = "done"
  /\ UNCHANGED <<call, req, i, currentDate, first, cfMap, recorded, cashflows, genErr, arg, ret, shared, sched>>

\* GetNextDate called by itself
GetNextDateCall ==
  /\ pc = "call"
  /\ call = "GetNextDate"
  /\ ret' = GetNextDate(arg.date, arg.freq)
  /\ pc' = "done"
  /\ UNCHANGED <<call, req, i, currentDate, first, cfMap, recorded, cashflows,
                 genErr, result, runErr, arg, shared, sched>>

-----------------------------------------------------------------------------

Next ==
  \/ GenerateCashflowsBegin
  \/ EventLoop
  \/ GetFirstDateLoop
  \/ ExpandLoop
  \/ GenerateCashflowsEnd
  \/ RunSimulationEnd
  \/ BalanceFromCashflowsCall
  \/ GetNextDateCall

Spec == Init /\ [][Next]_vars

-----------------------------------------------------------------------------
(* Several invocations at the same time, each in its own goroutine *)

\* the variables of the running invocation
Locals ==
  [call |-> call, req |-> req, pc |-> pc, i |-> i, currentDate |-> currentDate,
   first |-> first, cfMap |-> cfMap, recorded |-> recorded, cashflows |-> cashflows,
   genErr |-> genErr, result |-> result, runErr |-> runErr, arg |-> arg, ret |-> ret]

\* an invocation that has not taken a step yet
Start(c, r, cfs, a) ==
  [call |-> c, req |-> r, pc |-> "call", i |-> 0, currentDate |-> 0,
   first |-> NoDate, cfMap |-> <<>>, recorded |-> <<>>, cashflows |-> cfs,
   genErr |-> FALSE, result |-> <<>>, runErr |-> FALSE, arg |-> a, ret |-> NoReturn]

\* the event lists of the requests that run at the same time
ConcurrentEvents ==
  LET salary == [Name |-> "Salary", StartDate |-> Date(2025, 1, 24), EndDate |-> 0,
                 Frequency |-> Weekly, Value |-> 100]
      rent   == [Name |-> "Rent", StartDate |-> Date(2025, 1, 31), EndDate |-> 0,
                 Frequency |-> "", Value |-> -30]
      bonus  == [Name |-> "Bonus", StartDate |-> Date(2025, 1, 31), EndDate |-> 0,
                 Frequency |-> Monthly, Value |-> 100]
  IN  { <<>>, <<salary>>, <<salary, rent>>, <<bonus>> }

ConcurrentStarts ==
  { Start("RunSimulation",
          [Events |-> evs, InitialBalance |-> 1000, SimStart |-> w[1], SimEnd |-> w[2]],
          <<>>, NoArg) :
      evs \in ConcurrentEvents,
      w \in { <<Date(2025, 1, 31), Date(2025, 2, 7)>>, <<Date(2025, 2, 7), Date(2025, 1, 31)>> } }
  \cup
  { Start("BalanceFromCashflows",
          [Events |-> <<>>, InitialBalance |-> 0, SimStart |-> Date(2025, 1, 24),
           SimEnd |-> Date(2025, 1, 24)],
          <<e>>, NoArg) :
      e \in { x \in EntryUniverse : x.Cashflow = 100 /\ x.Date = Date(2025, 1, 31) } }
  \cup
  { Start("GetNextDate", NoRequest, <<>>, [date |-> Date(2025, 1, 31), freq |-> Monthly]) }

InitConcurrent ==
  /\ \E s \in ConcurrentStarts :
       /\ call = s.call /\ req = s.req /\ pc = s.pc /\ i = s.i
       /\ currentDate = s.currentDate /\ first = s.first /\ cfMap = s.cfMap
       /\ recorded = s.recorded /\ cashflows = s.cashflows /\ genErr = s.genErr
       /\ result = s.result /\ runErr = s.runErr /\ arg = s.arg /\ ret = s.ret
  /\ sharedDeltas = frequencyDeltas
  /\ sharedItems = emptyCashflowItems
  /\ self = 1
  /\ parked \in [2..Invocations -> ConcurrentStarts]

\* the scheduler takes the processor from the running invocation and gives
\* it to another one, which goes on where it was
Switch ==
  \E q \in DOMAIN parked :
    LET s == parked[q]
    IN  /\ call' = s.call /\ req' = s.req /\ pc' = s.pc /\ i' = s.i
        /\ currentDate' = s.currentDate /\ first' = s.first /\ cfMap' = s.cfMap
        /\ recorded' = s.recorded /\ cashflows' = s.cashflows /\ genErr' = s.genErr
        /\ result' = s.result /\ runErr' = s.runErr /\ arg' = s.arg /\ ret' = s.ret
        /\ self' = q
        /\ parked' = [p \in (DOMAIN parked \ {q}) \cup {self} |->
                        IF p = self THEN Locals ELSE parked[p]]
        /\ UNCHANGED shared

NextConcurrent ==
  \/ Next
  \/ Switch

SpecConcurrent == InitConcurrent /\ [][NextConcurrent]_vars

-----------------------------------------------------------------------------
(* Properties *)

\* GenerateCashflows has returned to RunSimulation
Returned == call = "RunSimulation" /\ pc \in {"generated", "done"}

\* the recognized recurrence tags
RecognizedTags == {"daily", "weekly", "monthly", "quarterly", "semi-annual", "annual"}

\* date is a member of the sequence cur, advance(cur), advance(advance(cur)), ...
RECURSIVE OccursFrom(_, _, _)
OccursFrom(cur, freq, date) ==
  IF cur = date THEN TRUE
  ELSE IF cur > date \/ freq \notin RecognizedTags THEN FALSE
  ELSE OccursFrom(GetNextDate(cur, freq).date, freq, date)

\* the sum of the values of the first n items, from the last one down
RECURSIVE SumValues(_, _)
SumValues(items, n) ==
  IF n = 0 THEN 0 ELSE SumValues(items, n - 1) + items[n].Value

\* the sum of the cashflows of the first n entries, from the last one down
RECURSIVE SumCashflows(_, _)
SumCashflows(cfs, n) ==
  IF n = 0 THEN 0 ELSE SumCashflows(cfs, n - 1) + cfs[n].Cashflow

\* C1: for a window with cf_begin <= cf_end, every entry GenerateCashflows
\* returns is dated inside [cf_begin, cf_end].
C1_EntriesInsideWindow ==
  (Returned /\ cfBegin <= cfEnd) =>
    \A k \in DOMAIN cashflows :
      cfBegin <= cashflows[k].Date /\ cashflows[k].Date <= cfEnd

\* C2: for sim_start <= sim_end, the ledger RunSimulation returns begins with
\* the entry dated sim_start and its dates never decrease.
C2_LedgerChronological ==
  (call = "RunSimulation" /\ pc = "done" /\ req.SimStart <= req.SimEnd) =>
    /\ Len(result) >= 1
    /\ result[1].Date = req.SimStart
    /\ \A k \in 1..(Len(result) - 1) : result[k].Date <= result[k + 1].Date

\* C3: an event with an unrecognized non-empty frequency tag, which none of
\* the skip rules (zero value, starts after the window, ended before the
\* window) covers and which is not the one-time event of end_date =
\* start_date, makes GenerateCashflows report an error.
C3_InvalidFrequencySurfaced ==
  (Returned /\ cfBegin <= cfEnd) =>
    \A k \in DOMAIN events :
      ( /\ events[k].Frequency \notin RecognizedTags \cup {""}
        /\ events[k].Value # 0
        /\ events[k].StartDate <= cfEnd
        /\ events[k].EndDate # events[k].StartDate
        /\ ~(events[k].EndDate # 0 /\ events[k].EndDate < cfBegin) )
      => genErr

\* C4: no event is recorded on a date before its own start_date.
C4_NoContributionBeforeStart ==
  \A k \in DOMAIN recorded :
    recorded[k].date >= events[recorded[k].event].StartDate

\* C5: end_date is an inclusive cutoff: no event with end_date set is recorded
\* on a date after end_date, and an event (of nonzero value, the others have
\* no occurrence) whose end_date is one of its occurrence dates and lies in
\* the window is recorded on end_date, in the entry of that date.
C5_EndDateInclusive ==
  /\ \A k \in DOMAIN recorded :
       LET e == events[recorded[k].event]
       IN  e.EndDate # 0 => recorded[k].date <= e.EndDate
  /\ (Returned /\ ~genErr) =>
       \A j \in DOMAIN events :
         LET e == events[j]
         IN  ( /\ e.Value # 0
               /\ e.EndDate # 0
               /\ cfBegin <= e.EndDate /\ e.EndDate <= cfEnd
               /\ OccursFrom(e.StartDate, e.Frequency, e.EndDate) )
             => /\ \E k \in DOMAIN recorded :
                     recorded[k] = [event |-> j, date |-> e.EndDate]
                /\ \E k \in DOMAIN cashflows :
                     /\ cashflows[k].Date = e.EndDate
                     /\ \E n \in DOMAIN cashflows[k].Items :
                          cashflows[k].Items[n] = [Name |-> e.Name, Value |-> e.Value]

\* a weekly event was recorded on its end_date and cut off there, although
\* its next occurrence is still inside the window
C5_Witness ==
  /\ Returned /\ ~genErr
  /\ \E j \in DOMAIN events :
       /\ events[j].Frequency = Weekly
       /\ events[j].EndDate # 0
       /\ events[j].StartDate < events[j].EndDate
       /\ events[j].EndDate + 7 <= cfEnd
       /\ \E k \in DOMAIN recorded :
            recorded[k] = [event |-> j, date |-> events[j].EndDate]
       /\ \E k \in DOMAIN cashflows : cashflows[k].Date = events[j].EndDate

\* C6: the entries GenerateCashflows returns are strictly increasing in date,
\* and everything recorded on one date is merged into exactly one entry.
C6_StrictlyIncreasingMerged ==
  (Returned /\ ~genErr) =>
    /\ \A k \in 1..(Len(cashflows) - 1) : cashflows[k].Date < cashflows[k + 1].Date
    /\ \A k \in DOMAIN cashflows :
         \E r \in DOMAIN recorded : recorded[r].date = cashflows[k].Date
    /\ \A r \in DOMAIN recorded :
         LET d == recorded[r].date
             at == { k \in DOMAIN cashflows : cashflows[k].Date = d }
         IN  /\ Cardinality(at) = 1
             /\ \A k \in at :
                  Len(cashflows[k].Items) =
                    Cardinality({ q \in DOMAIN recorded : recorded[q].date = d })

\* two events were recorded on one date, and there is more than one entry
C6_Witness ==
  /\ Returned /\ ~genErr
  /\ Len(cashflows) >= 2
  /\ \E a, b \in DOMAIN recorded :
       /\ recorded[a].event # recorded[b].event
       /\ recorded[a].date = recorded[b].date
       /\ \E k \in DOMAIN cashflows :
            cashflows[k].Date = recorded[a].date /\ Len(cashflows[k].Items) >= 2

\* C7: every entry has items, its cashflow is the sum of their values, no
\* item has value 0, and an event of value 0 is never recorded.
C7_ItemsSumNonZero ==
  /\ \A r \in DOMAIN recorded : events[recorded[r].event].Value # 0
  /\ (Returned /\ ~genErr) =>
       \A k \in DOMAIN cashflows :
         /\ cashflows[k].Items # <<>>
         /\ cashflows[k].Cashflow =
              SumValues(cashflows[k].Items, Len(cashflows[k].Items))
         /\ \A n \in DOMAIN cashflows[k].Items : cashflows[k].Items[n].Value # 0

\* an event of value 0 starts on a date inside the window on which another
\* event was recorded, and the entry of that date holds that one item
C7_Witness ==
  /\ Returned /\ ~genErr
  /\ \E j \in DOMAIN events, k \in DOMAIN cashflows :
       /\ events[j].Value = 0
       /\ events[j].Frequency = ""
       /\ cfBegin <= events[j].StartDate /\ events[j].StartDate <= cfEnd
       /\ cashflows[k].Date = events[j].StartDate
       /\ Len(cashflows[k].Items) = 1
       /\ cashflows[k].Cashflow = 100

\* C8: BalanceFromCashflows is a left fold: the entry after the first i input
\* entries has balance initial_balance + c1 + ... + ci and keeps the date,
\* cashflow and items of the i-th input entry.
C8_LeftFold ==
  (call \in {"RunSimulation", "BalanceFromCashflows"} /\ pc = "done" /\ ~runErr) =>
    \A k \in DOMAIN cashflows :
      /\ k + 1 \in DOMAIN result
      /\ result[k + 1].Balance = req.InitialBalance + SumCashflows(cashflows, k)
      /\ result[k + 1].Date = cashflows[k].Date
      /\ result[k + 1].Cashflow = cashflows[k].Cashflow
      /\ result[k + 1].Items = cashflows[k].Items

\* a ledger over two entries of different sign
C8_Witness ==
  /\ pc = "done" /\ ~runErr
  /\ Len(cashflows) = 2
  /\ cashflows[1].Cashflow > 0 /\ cashflows[2].Cashflow < 0
  /\ result[3].Balance = req.InitialBalance + cashflows[1].Cashflow + cashflows[2].Cashflow

\* C9: BalanceFromCashflows returns len(entries)+1 entries, the first one
\* dated sim_start with cashflow 0, balance initial_balance and no items; for
\* no entries (as GenerateCashflows returns for no events) that is all of it.
C9_InitialEntry ==
  (call \in {"RunSimulation", "BalanceFromCashflows"} /\ pc = "done" /\ ~runErr) =>
    /\ Len(result) = Len(cashflows) + 1
    /\ result[1] = [Date |-> req.SimStart, Cashflow |-> 0,
                    Balance |-> req.InitialBalance, Items |-> <<>>]
    /\ (call = "RunSimulation" /\ events = <<>>) => cashflows = <<>>
    /\ cashflows = <<>> => Len(result) = 1

\* a simulation without events returned the initial entry alone
C9_Witness ==
  /\ call = "RunSimulation" /\ pc = "done" /\ ~runErr
  /\ events = <<>>
  /\ Len(result) = 1
  /\ result[1].Balance = 1000

\* C10: with cf_begin after cf_end GenerateCashflows returns an error and no
\* entries, whatever the events, and RunSimulation returns an error and an
\* empty response; nothing is computed on the way.
C10_InvalidWindowFails ==
  (call = "RunSimulation" /\ cfBegin > cfEnd) =>
    /\ pc \in {"call", "generated", "done"}
    /\ cfMap = <<>> /\ recorded = <<>>
    /\ cashflows = <<>> /\ result = <<>>
    /\ pc \in {"generated", "done"} => genErr
    /\ pc = "done" => runErr

\* a request with events and sim_start after sim_end came back as an error
C10_Witness ==
  /\ call = "RunSimulation" /\ pc = "done"
  /\ cfBegin > cfEnd
  /\ events # <<>>
  /\ genErr /\ runErr /\ result = <<>>

\* C11: when GetFirstDate reports an occurrence for the event being expanded,
\* the date it returned lies inside [cf_begin, cf_end] and is a date on which
\* the event fires (a member of its recurrence sequence from start_date).
C11_FirstDateInsideWindow ==
  (call = "RunSimulation" /\ pc = "expand" /\ first.ok) =>
    /\ cfBegin <= first.date /\ first.date <= cfEnd
    /\ OccursFrom(events[i].StartDate, events[i].Frequency, first.date)

\* the items recorded on date d, in the order they were recorded
ItemsRecordedOn(d) ==
  LET sel == SelectSeq(recorded, LAMBDA r : r.date = d)
  IN  [n \in 1..Len(sel) |->
         [Name |-> events[sel[n].event].Name, Value |-> events[sel[n].event].Value]]

\* every slice GenerateCashflows may return from the present cfMap
CollectOutcomes ==
  UNION { sortCashflowsByDate(RangeMap(cfMap, o)) : o \in MapOrders(cfMap) }

\* C12: the output is the same on every run: whatever order the map is ranged
\* over, one slice comes out; it is sorted by date, and the items of an entry
\* are in the order of their events in the input list.
C12_Deterministic ==
  /\ pc = "collect" => Cardinality(CollectOutcomes) = 1
  /\ \A a, b \in DOMAIN recorded : a < b => recorded[a].event <= recorded[b].event
  /\ (Returned /\ ~genErr) =>
       /\ \A k \in 1..(Len(cashflows) - 1) : cashflows[k].Date <= cashflows[k + 1].Date
       /\ \A k \in DOMAIN cashflows :
            cashflows[k].Items = ItemsRecordedOn(cashflows[k].Date)

\* two events of different names met on one date of a ledger of several
\* entries, and their items stand in the order of the events
C12_Witness ==
  /\ Returned /\ ~genErr /\ pc = "done"
  /\ Len(cashflows) >= 2
  /\ \E k \in DOMAIN cashflows :
       /\ Len(cashflows[k].Items) = 2
       /\ cashflows[k].Items[1].Name = events[1].Name
       /\ cashflows[k].Items[2].Name = events[2].Name
       /\ events[1].Name # events[2].Name

\* C13: GetNextDate fails exactly for the tags that are not one of the six
\* (the empty string among them), IsValidFrequency is true exactly when
\* GetNextDate succeeds, and a successful advance is strictly later.
C13_NextDateFailsExactly ==
  /\ (call = "GetNextDate" /\ pc = "done") =>
       /\ ret.err <=> arg.freq \notin RecognizedTags
       /\ IsValidFrequency(arg.freq) <=> ~ret.err
       /\ ~ret.err => ret.date > arg.date
  /\ (call = "RunSimulation" /\ pc \in {"first", "expand"}) =>
       LET next == GetNextDate(currentDate, events[i].Frequency)
       IN  /\ next.err <=> ~IsValidFrequency(events[i].Frequency)
           /\ ~next.err => next.date > currentDate

\* GetNextDate was called with the empty tag and failed
C13_Witness ==
  /\ call = "GetNextDate" /\ pc = "done"
  /\ arg.freq = ""
  /\ ret.err

\* the first date of an event, by the loop of GetFirstDate over the table as
\* the package initialises it
RECURSIVE AloneFirstLoop(_, _, _)
AloneFirstLoop(cur, freq, begin) ==
  IF cur < begin
    THEN LET n == NextDateIn(frequencyDeltas, cur, freq)
         IN  IF n.err THEN NoDate ELSE AloneFirstLoop(n.date, freq, begin)
    ELSE [date |-> cur, ok |-> TRUE]

AloneFirst(event, begin, end) ==
  LET r == FirstDateDirect(event, begin, end)
  IN  IF r.kind = "loop" THEN AloneFirstLoop(r.date, event.Frequency, begin)
      ELSE [date |-> r.date, ok |-> r.ok]

\* the map after one event was expanded from cur on
RECURSIVE AloneExpand(_, _, _, _)
AloneExpand(m, event, cur, end) ==
  IF cur > end \/ EventEnded(event, cur) THEN m
  ELSE LET m2 == AppendItem(m, cur, [Name |-> event.Name, Value |-> event.Value])
           n  == NextDateIn(frequencyDeltas, cur, event.Frequency)
       IN  IF event.Frequency = "" \/ n.err THEN m2
           ELSE AloneExpand(m2, event, n.date, end)

\* the map after the events from the k-th on were expanded
RECURSIVE AloneMap(_, _, _, _, _)
AloneMap(evs, k, m, begin, end) ==
  IF k > Len(evs) THEN m
  ELSE IF SkipEvent(evs[k]) THEN AloneMap(evs, k + 1, m, begin, end)
  ELSE LET f == AloneFirst(evs[k], begin, end)
       IN  IF f.ok
             THEN AloneMap(evs, k + 1, AloneExpand(m, evs[k], f.date, end), begin, end)
             ELSE AloneMap(evs, k + 1, m, begin, end)

\* what RunSimulation returns for request r when nothing else runs
AloneRunSimulation(r) ==
  IF InvalidWindow(r.SimStart, r.SimEnd)
    THEN [err |-> TRUE, ledger |-> <<>>]
    ELSE LET m      == AloneMap(r.Events, 1, <<>>, r.SimStart, r.SimEnd)
             sorted == CHOOSE x \in sortCashflowsByDate(RangeMap(m, Ascending(DOMAIN m))) : TRUE
         IN  [err |-> FALSE,
              ledger |-> BalanceLoop(r.InitialBalance, sorted,
                           << [Date |-> r.SimStart, Cashflow |-> 0,
                               Balance |-> r.InitialBalance,
                               Items |-> emptyCashflowItems] >>)]

\* invocation s of RunSimulation, when it has returned, returned what it
\* returns when run alone
SameAsAlone(s) ==
  (s.call = "RunSimulation" /\ s.pc = "done") =>
    /\ s.runErr = AloneRunSimulation(s.req).err
    /\ s.result = AloneRunSimulation(s.req).ledger

\* C14: invocations that run at the same time need no synchronization: under
\* every interleaving no invocation changes the frequency table or the shared
\* empty items slice, and each invocation of RunSimulation returns the ledger
\* it returns when run alone.
C14_ConcurrentInvocationsIndependent ==
  /\ sharedDeltas = frequencyDeltas
  /\ sharedItems = emptyCashflowItems
  /\ SameAsAlone(Locals)
  /\ \A q \in DOMAIN parked : SameAsAlone(parked[q])

\* an invocation of RunSimulation has returned a ledger of several entries
\* while another one, for another request, is in the middle of its expansion
C14_Witness ==
  /\ call = "RunSimulation" /\ pc = "done" /\ ~runErr
  /\ Len(result) >= 3
  /\ \E q \in DOMAIN parked :
       /\ parked[q].call = "RunSimulation"
       /\ parked[q].req # req
       /\ parked[q].pc = "expand"
       /\ parked[q].recorded # <<>>

\* C15: an event of nonzero value with a recognized frequency other than
\* daily is recorded exactly on the members of the sequence start_date,
\* advance(start_date), ... that lie in [cf_begin, cf_end] and not after
\* end_date (if set), once on each, and on no other date.
C15_RecordedExactlyOccurrences ==
  (Returned /\ ~genErr) =>
    \A j \in DOMAIN events :
      LET e == events[j]
      IN  (e.Frequency \in RecognizedTags \ {"daily"} /\ e.Value # 0) =>
            /\ \A k \in DOMAIN recorded :
                 recorded[k].event = j =>
                   cfBegin <= recorded[k].date /\ recorded[k].date <= cfEnd
            /\ \A d \in cfBegin..cfEnd :
                 Cardinality({ k \in DOMAIN recorded :
                                 recorded[k] = [event |-> j, date |-> d] })
                   = IF /\ OccursFrom(e.StartDate, e.Frequency, d)
                        /\ (e.EndDate = 0 \/ d <= e.EndDate)
                       THEN 1 ELSE 0

\* a weekly event that started a week before the window was recorded on the
\* first and on the last day of the window, and on these two days only
C15_Witness ==
  /\ Returned /\ ~genErr
  /\ cfEnd = cfBegin + 7
  /\ \E j \in DOMAIN events :
       /\ events[j].Frequency = Weekly
       /\ events[j].EndDate = 0
       /\ events[j].StartDate = cfBegin - 7
       /\ { recorded[k].date : k \in { n \in DOMAIN recorded : recorded[n].event = j } }
            = {cfBegin, cfEnd}

-----------------------------------------------------------------------------
(* Termination *)

\* the events of the runs followed to their end: every tag of the model
\* that enters a loop, with and without an end date; they start on
\* 2025-01-24, which the windows put on cf_begin, before it and outside
TerminationEvents ==
  { e \in EventUniverse :
      /\ e.Name \in {"Salary", "Bonus"}
      /\ e.StartDate = Date(2025, 1, 24)
      /\ e.Frequency # ""
      /\ e.EndDate = 0 \/ (e.Frequency = Weekly /\ e.EndDate = Date(2025, 1, 31)) }

InitTermination ==
  /\ Init
  /\ call = "RunSimulation" => \A k \in DOMAIN events : events[k] \in TerminationEvents

\* A call runs in one goroutine that is never suspended for good: whenever
\* a step of the call is possible, a step is eventually taken.
LiveSpec == InitTermination /\ [][Next]_vars /\ WF_vars(Next)

\* C16: every run terminates.  The call reaches its return, and as long as
\* one of the two loops (the advance-until-window loop of GetFirstDate, the
\* expansion loop of GenerateCashflows) stays with the same event, the
\* current date strictly increases; an advance failure leaves the loop.
C16_EveryRunTerminates ==
  /\ <>(pc = "done")
  /\ [][(pc \in {"first", "expand"} /\ pc' = pc /\ i' = i)
          => /\ currentDate' > currentDate
             /\ IsValidFrequency(events[i].Frequency)]_vars

\* a run has returned in which the advance failed for an event with an
\* unrecognized tag that started before the window, and a weekly event that
\* started before the window went through both loops and was recorded twice
C16_Witness ==
  /\ call = "RunSimulation" /\ pc = "done" /\ ~runErr
  /\ \E j, k \in DOMAIN events :
       /\ events[j].Frequency \notin RecognizedTags \cup {""}
       /\ events[j].StartDate < cfBegin
       /\ events[j].EndDate # events[j].StartDate
       /\ events[k].Frequency = Weekly
       /\ events[k].StartDate < cfBegin
       /\ Cardinality({ n \in DOMAIN recorded : recorded[n].event = k }) = 2

====
